---- MODULE Spec2Model ----
(***************************************************************************)
(* A model of index.js, the abyss strategy-guide Discord bot: the start-up *)
(* sequence (token check, client creation, listener registration, login)   *)
(* and the messageCreate handler (bot filter, trim, the three literal      *)
(* commands, the floor pattern, the strategies table, the Friday date      *)
(* prefix and the embed that is sent).                                     *)
(*                                                                         *)
(* Text is modelled as a sequence of one-character strings, so that trim,  *)
(* the regular expression and toLowerCase are computed character by        *)
(* character.  A character outside ASCII is written by its code point, as  *)
(* in "U+653B".  A date is the number of days since 1970-01-01, as in the  *)
(* time value of a JavaScript Date (local time, whole days).               *)
(***************************************************************************)
EXTENDS Integers, Sequences, FiniteSets, TLC

\* ------------------------------------------------------------- bounds

\* Deliveries of a message to the handler in one run.
MaxMsgs == 2
\* Days the clock may advance after the process started.
MaxTicks == 6
\* The days the process may be started on: Sunday 2024-12-29 and Sunday
\* 2025-02-23, as days since 1970-01-01.
StartDayA == 20086
StartDayB == 20142
\* Further days a run with one floor command may be started on: Sunday
\* 2021-12-26 and Sunday 2024-02-25 (the week of a leap day).
StartDayC == 18987
StartDayD == 19778

\* ------------------------------------------------------------- characters

Digits == {"0", "1", "2", "3", "4", "5", "6", "7", "8", "9"}

\* Part of the WhiteSpace and LineTerminator characters of ECMAScript, which
\* String.prototype.trim strips and the pattern's \s matches.
WhiteSpace == {" ", "\t", "\n", "\r", "U+00A0", "U+3000"}

UpperAlpha == <<"A", "B", "C", "D", "E", "F", "G", "H", "I", "J", "K", "L", "M",
                "N", "O", "P", "Q", "R", "S", "T", "U", "V", "W", "X", "Y", "Z">>
LowerAlpha == <<"a", "b", "c", "d", "e", "f", "g", "h", "i", "j", "k", "l", "m",
                "n", "o", "p", "q", "r", "s", "t", "u", "v", "w", "x", "y", "z">>

\* String.prototype.toLowerCase on one character.
ToLowerChar(c) ==
    IF \E i \in 1..26 : UpperAlpha[i] = c
    THEN LowerAlpha[CHOOSE i \in 1..26 : UpperAlpha[i] = c]
    ELSE c

\* The canonicalisation of a character under the pattern's i flag (to upper
\* case).
Canonicalize(c) ==
    IF \E i \in 1..26 : LowerAlpha[i] = c
    THEN UpperAlpha[CHOOSE i \in 1..26 : LowerAlpha[i] = c]
    ELSE c

\* String.prototype.toLowerCase.
ToLowerCase(s) == [i \in 1..Len(s) |-> ToLowerChar(s[i])]

\* ------------------------------------------------------------- trim

\* The number of characters at the start of s that are in set S.
RECURSIVE LeadingIn(_, _)
LeadingIn(s, S) ==
    IF s = <<>> \/ Head(s) \notin S THEN 0 ELSE 1 + LeadingIn(Tail(s), S)

\* The number of characters at the end of s that are in set S.
RECURSIVE TrailingIn(_, _)
TrailingIn(s, S) ==
    IF s = <<>> \/ s[Len(s)] \notin S THEN 0
    ELSE 1 + TrailingIn(SubSeq(s, 1, Len(s) - 1), S)

\* Trim as trimStart: only the leading white space is stripped.
TrimStartOnly(s) == SubSeq(s, LeadingIn(s, WhiteSpace) + 1, Len(s))

\* String.prototype.trim: msg.content.trim().
Trim(s) ==
    LET a == LeadingIn(s, WhiteSpace)
        t == SubSeq(s, a + 1, Len(s))
    IN  SubSeq(t, 1, Len(t) - TrailingIn(t, WhiteSpace))

\* ------------------------------------------------------------- the pattern

\* The languages of the pattern's alternation (en|cn|jp), as the pattern
\* spells them.
LangEn == <<"e", "n">>
LangCn == <<"c", "n">>
LangJp == <<"j", "p">>
PatternLangs == {LangEn, LangCn, LangJp}

\* What String.prototype.match returns when the pattern does not match (null).
NoMatch == [matched |-> FALSE, m1 |-> <<>>, has2 |-> FALSE, m2 |-> <<>>]

\* s equals one of the alternatives of (en|cn|jp) up to case (the i flag).
IsLangAlternative(s) ==
    \E l \in PatternLangs :
        /\ Len(s) = Len(l)
        /\ \A i \in 1..Len(l) : Canonicalize(s[i]) = Canonicalize(l[i])

\* raw.match(/^!(\d+)(?:\s*(en|cn|jp))?$/i): m1 is the first group, the
\* digits; m2 is the second group as written in raw, and has2 says whether
\* the second group took part in the match (m[2] is undefined otherwise).
Match(raw) ==
    IF Len(raw) < 2 \/ raw[1] # "!" THEN NoMatch
    ELSE LET nd   == LeadingIn(Tail(raw), Digits)
             rest == SubSeq(raw, nd + 2, Len(raw))
             tl   == SubSeq(rest, LeadingIn(rest, WhiteSpace) + 1, Len(rest))
         IN  IF nd = 0 THEN NoMatch
             ELSE IF rest = <<>>
                  THEN [matched |-> TRUE, m1 |-> SubSeq(raw, 2, nd + 1),
                        has2 |-> FALSE, m2 |-> <<>>]
             ELSE IF IsLangAlternative(tl)
                  THEN [matched |-> TRUE, m1 |-> SubSeq(raw, 2, nd + 1),
                        has2 |-> TRUE, m2 |-> tl]
             ELSE NoMatch

\* LangOf without the toLowerCase call: m[2] || 'en'.
LangOfAsWritten(m) == IF m.has2 /\ m.m2 # <<>> THEN m.m2 ELSE LangEn

\* const lang = m[2]?.toLowerCase() || 'en'.
LangOf(m) == IF m.has2 /\ ToLowerCase(m.m2) # <<>> THEN ToLowerCase(m.m2) ELSE LangEn

\* ------------------------------------------------------------- the table

Floor57 == <<"5", "7">>
Floor58 == <<"5", "8">>

\* The strategies object: floor key -> language -> entry.
strategies ==
    [k \in {Floor57, Floor58} |->
      IF k = Floor57
      THEN [l \in PatternLangs |->
             IF l = LangEn THEN
               [titleSuffix |-> "Abyss Strategy for 57", goal |-> 57,
                link |-> "https://discord.com/channels/1082595320074092574/1363695806841880656/1381677003136176293"]
             ELSE IF l = LangCn THEN
               [titleSuffix |-> "57<U+5C64><U+6DF1><U+6DF5><U+653B><U+7565>", goal |-> 57,
                link |-> "https://discord.com/channels/1082595320074092574/1363734401791430868/1381672941288296549"]
             ELSE
               [titleSuffix |-> "57<U+5C64><U+306E><U+6DF1><U+6DF5><U+6226><U+7565>", goal |-> 57,
                link |-> "https://discord.com/channels/1082595320074092574/1381483438640730242/1382585667321597963"]]
      ELSE [l \in PatternLangs |->
             IF l = LangEn THEN
               [titleSuffix |-> "Abyss Strategy for 58", goal |-> 58,
                link |-> "https://discord.com/channels/1082595320074092574/1363695806841880656/1381491555122282576"]
             ELSE IF l = LangCn THEN
               [titleSuffix |-> "58<U+5C64><U+6DF1><U+6DF5><U+653B><U+7565>", goal |-> 58,
                link |-> "https://discord.com/channels/1082595320074092574/1363734401791430868/1381483774038114466"]
             ELSE
               [titleSuffix |-> "58<U+5C64><U+306E><U+6DF1><U+6DF5><U+6226><U+7565>", goal |-> 58,
                link |-> "https://discord.com/channels/1082595320074092574/1381483438640730242/1382585667321597963"]]]

\* The value of a missing property, or of an optional chain cut short.
Undefined == [kind |-> "undefined"]

\* Lookup without the optional chain, strategies[key][lang]: reading a
\* property of undefined throws a TypeError.
LookupNoChain(key, lang) ==
    IF key \notin DOMAIN strategies THEN [kind |-> "TypeError"]
    ELSE IF lang \notin DOMAIN strategies[key] THEN Undefined
    ELSE [kind |-> "cfg", titleSuffix |-> strategies[key][lang].titleSuffix,
          goal |-> strategies[key][lang].goal, link |-> strategies[key][lang].link]

\* Lookup that reads the en entry whatever the language.
LookupEnOnly(key, lang) ==
    IF key \notin DOMAIN strategies THEN Undefined
    ELSE IF lang \notin DOMAIN strategies[key] THEN Undefined
    ELSE [kind |-> "cfg", titleSuffix |-> strategies[key][LangEn].titleSuffix,
          goal |-> strategies[key][LangEn].goal, link |-> strategies[key][LangEn].link]

\* The digits of key without its leading zeros.
RECURSIVE StripZeros(_)
StripZeros(key) ==
    IF Len(key) > 1 /\ Head(key) = "0" THEN StripZeros(Tail(key)) ELSE key

\* Lookup by the number the digits spell, strategies[Number(key)]?.[lang]:
\* leading zeros of the key do not count.
LookupByNumber(key, lang) ==
    IF StripZeros(key) \notin DOMAIN strategies THEN Undefined
    ELSE IF lang \notin DOMAIN strategies[StripZeros(key)] THEN Undefined
    ELSE [kind |-> "cfg", titleSuffix |-> strategies[StripZeros(key)][lang].titleSuffix,
          goal |-> strategies[StripZeros(key)][lang].goal,
          link |-> strategies[StripZeros(key)][lang].link]

\* const cfg = strategies[key]?.[lang]: undefined when the floor is no key
\* of the table (the optional chain stops) or the language is no key of the
\* floor's object.
Lookup(key, lang) ==
    IF key \notin DOMAIN strategies THEN Undefined
    ELSE IF lang \notin DOMAIN strategies[key] THEN Undefined
    ELSE [kind |-> "cfg", titleSuffix |-> strategies[key][lang].titleSuffix,
          goal |-> strategies[key][lang].goal, link |-> strategies[key][lang].link]

\* ------------------------------------------------------------- dates

\* Whether year y is a leap year of the Gregorian calendar.
IsLeap(y) == (y % 4 = 0 /\ y % 100 # 0) \/ y % 400 = 0

\* The day number of January 1 of year y (days since 1970-01-01).
DayFromYear(y) ==
    365 * (y - 1970) + ((y - 1969) \div 4) - ((y - 1901) \div 100)
        + ((y - 1601) \div 400)

\* The year a day number falls in.
YearFromTime(t) ==
    CHOOSE y \in (1970 + t \div 366)..(1971 + t \div 365) :
        DayFromYear(y) <= t /\ t < DayFromYear(y + 1)

\* The lengths of the months of year y, January first.
MonthLengths(y) ==
    <<31, IF IsLeap(y) THEN 29 ELSE 28, 31, 30, 31, 30, 31, 31, 30, 31, 30, 31>>

\* The number of days of year y before its month m (m = 0 is January).
RECURSIVE DaysBeforeMonth(_, _)
DaysBeforeMonth(y, m) ==
    IF m = 0 THEN 0 ELSE DaysBeforeMonth(y, m - 1) + MonthLengths(y)[m]

\* Date.prototype.getMonth: 0 is January.
GetMonth(t) ==
    LET y == YearFromTime(t)
        d == t - DayFromYear(y)
    IN  CHOOSE m \in 0..11 :
            /\ DaysBeforeMonth(y, m) <= d
            /\ d < DaysBeforeMonth(y, m) + MonthLengths(y)[m + 1]

\* Date.prototype.getDate: the day of the month, from 1.
GetDate(t) ==
    LET y == YearFromTime(t)
    IN  t - DayFromYear(y) - DaysBeforeMonth(y, GetMonth(t)) + 1

\* Date.prototype.getDay: 0 is Sunday, 6 is Saturday (1970-01-01 was a
\* Thursday).
GetDay(t) == (t + 4) % 7

\* setDate that keeps the day within t's month: a dt below 1 gives the
\* first day of the month and a dt beyond its end the last.
SetDateClamped(t, dt) ==
    LET y   == YearFromTime(t)
        len == MonthLengths(y)[GetMonth(t) + 1]
        d   == IF dt < 1 THEN 1 ELSE IF dt > len THEN len ELSE dt
    IN  DayFromYear(y) + DaysBeforeMonth(y, GetMonth(t)) + d - 1

\* Date.prototype.setDate(dt) on date t: the day dt of t's month, counted
\* on from the first of the month, so a dt below 1 or beyond the month's end
\* falls in an adjacent month.
SetDate(t, dt) ==
    LET y == YearFromTime(t)
    IN  DayFromYear(y) + DaysBeforeMonth(y, GetMonth(t)) + dt - 1

\* const diff = 5 - now.getDay(); fri.setDate(now.getDate() + diff).
Fri(now) == SetDate(now, GetDate(now) + (5 - GetDay(now)))

\* const fridayStr = `${fri.getMonth()+1}/${fri.getDate()}`, as the parts
\* of the template.
FridayStr(now) ==
    <<ToString(GetMonth(Fri(now)) + 1), "/", ToString(GetDate(Fri(now)))>>

\* ------------------------------------------------------------- embeds

ColorEn == 1752220   \* 0x1ABC9C
ColorCn == 16729344  \* 0xFF4500
ColorJp == 16766720  \* 0xFFD700

\* The three literal commands.
CmdStrategy == <<"!", "s", "t", "r", "a", "t", "e", "g", "y">>
CmdCn == <<"!", "U+653B", "U+7565">>
CmdJp == <<"!", "U+6226", "U+7565">>

\* The embed of !strategy.  A description is the sequence of the parts of
\* its text; of a literal command's description the fixed labels are left
\* out and the permalinks kept, in order.
StrategyEmbed ==
    [title |-> <<"Common abyss strategy">>,
     color |-> ColorEn,
     description |-> <<
       "https://discord.com/channels/1082595320074092574/1363695806841880656/1363733485696716903",
       "https://discord.com/channels/1082595320074092574/1363695806841880656/1381455399336808489",
       "https://discord.com/channels/1082595320074092574/1363695806841880656/1373203013031952445",
       "https://discord.com/channels/1082595320074092574/1363695806841880656/1363733485696716903",
       "https://discord.com/channels/1082595320074092574/1363695806841880656/1382113056552779887">>]

\* The Chinese embed with the title of the English one.
StrategyEmbedCnEnTitle ==
    [title |-> <<"Common abyss strategy">>, color |-> ColorEn, description |-> <<>>]

\* The embed of the Chinese literal command.
StrategyEmbedCn ==
    [title |-> <<"<U+901A><U+7528><U+6DF1><U+6DF5><U+653B><U+7565>">>,
     color |-> ColorEn,
     description |-> <<
       "https://discord.com/channels/1082595320074092574/1363734401791430868/1363734640556249188",
       "https://discord.com/channels/1082595320074092574/1363734401791430868/1381465507944861697",
       "https://discord.com/channels/1082595320074092574/1363734401791430868/1373210571432005684",
       "https://discord.com/channels/1082595320074092574/1363734401791430868/1363734942915367044",
       "https://discord.com/channels/1082595320074092574/1363734401791430868/1381474295032844500",
       "https://discord.com/channels/1082595320074092574/1363734401791430868/1370435360697352353">>]

\* The embed of the Japanese literal command.
StrategyEmbedJp ==
    [title |-> <<"<U+5171><U+901A><U+6DF1><U+6DF5><U+6226><U+7565>">>,
     color |-> ColorEn,
     description |-> <<
       "https://discord.com/channels/1082595320074092574/1381483438640730242/1382550116833165412",
       "https://discord.com/channels/1082595320074092574/1381483438640730242/1382577816398204978",
       "https://discord.com/channels/1082595320074092574/1381483438640730242/1382566525382168646",
       "https://discord.com/channels/1082595320074092574/1381483438640730242/1382557150987030548",
       "https://discord.com/channels/1082595320074092574/1381483438640730242/1382588080594227220">>]

\* FloorColor with the colors of cn and jp exchanged.
FloorColorSwapped(lang) ==
    IF lang = LangCn THEN ColorJp ELSE IF lang = LangJp THEN ColorCn ELSE ColorEn

\* .setColor(lang === 'cn' ? 0xFF4500 : lang === 'jp' ? 0xFFD700 : 0x1ABC9C).
FloorColor(lang) ==
    IF lang = LangCn THEN ColorCn ELSE IF lang = LangJp THEN ColorJp ELSE ColorEn

\* The description template of a floor reply, as the parts of the template
\* literal the language selects.
FloorDescription(lang, cfg) ==
    IF lang = LangCn
    THEN <<"**<U+76EE><U+6A19><U+FF1A>**", ToString(cfg.goal),
           "<U+5C64>\n\n**<U+653B><U+7565><U+FF1A>**[<U+9EDE><U+9019><U+88E1>](",
           cfg.link, ")">>
    ELSE IF lang = LangJp
    THEN <<"**<U+76EE><U+6A19><U+FF1A>**", ToString(cfg.goal),
           "<U+5C64>\n\n**<U+6226><U+7565><U+FF1A>**[<U+3053><U+3061><U+3089>](",
           cfg.link, ")">>
    ELSE <<"**Goal:** ", ToString(cfg.goal), "\n\n**Guide:** [Click here](",
           cfg.link, ")">>

\* The embed of a floor reply: the title is `${fridayStr} ${cfg.titleSuffix}`.
FloorEmbed(lang, cfg, now) ==
    [title |-> FridayStr(now) \o <<" ", cfg.titleSuffix>>,
     color |-> FloorColor(lang),
     description |-> FloorDescription(lang, cfg)]

\* ------------------------------------------------------------- the handler

\* Send that sends the embed a second time.
SendTwice(msg, embed) ==
    <<[channel |-> msg.channel, embeds |-> <<embed>>],
      [channel |-> msg.channel, embeds |-> <<embed>>]>>

\* msg.channel.send({ embeds: [embed] }): one message to the channel.  The
\* handler returns the promise of the send and never looks at its outcome.
Send(msg, embed) == <<[channel |-> msg.channel, embeds |-> <<embed>>]>>

\* The floor branch of the handler, taken once the pattern matched: the
\* sends it makes.  An exception thrown by the lookup leaves the handler.
FloorReply(msg, m, now) ==
    LET key  == m.m1
        lang == LangOf(m)
        cfg  == Lookup(key, lang)
    IN  IF cfg.kind = "TypeError" THEN [sends |-> <<>>, threw |-> TRUE]
        ELSE IF cfg.kind = "undefined" THEN [sends |-> <<>>, threw |-> FALSE]
        ELSE [sends |-> Send(msg, FloorEmbed(lang, cfg, now)), threw |-> FALSE]

\* The handler without the bot check.
IgnoreNoAuthor(msg) == FALSE

\* Whether the handler leaves at once: if (msg.author.bot) return.
IgnoreAuthor(msg) == msg.author.bot

\* The messageCreate handler on message msg with the clock at now: the
\* sends it makes, in order, and whether it threw.
MessageCreate(msg, now) ==
    IF IgnoreAuthor(msg) THEN [sends |-> <<>>, threw |-> FALSE]
    ELSE LET raw == Trim(msg.content)
         IN  IF raw = CmdStrategy
             THEN [sends |-> Send(msg, StrategyEmbed), threw |-> FALSE]
             ELSE IF raw = CmdCn
             THEN [sends |-> Send(msg, StrategyEmbedCn), threw |-> FALSE]
             ELSE IF raw = CmdJp
             THEN [sends |-> Send(msg, StrategyEmbedJp), threw |-> FALSE]
             ELSE IF Match(raw).matched
             THEN FloorReply(msg, Match(raw), now)
             ELSE [sends |-> <<>>, threw |-> FALSE]

\* ------------------------------------------------------------- inputs

Channels == {"abyss-en", "abyss-cn"}

\* The values of process.env.BOT_TOKEN: not set, set to the empty string,
\* set to a token.
TokenValues ==
    {[set |-> FALSE, value |-> ""], [set |-> TRUE, value |-> ""],
     [set |-> TRUE, value |-> "token"]}

\* Message texts of a run: the literal commands, floor commands of known
\* and unknown floors, padded and upper-case spellings, and texts that are
\* no command.
BaseContents ==
    {CmdStrategy, CmdCn, CmdJp,
     <<" ", "!", "s", "t", "r", "a", "t", "e", "g", "y", "\n">>,
     <<"!", "5", "7">>, <<"!", "5", "7", "e", "n">>, <<"!", "5", "7", "J", "P">>,
     <<"!", "5", "8", "c", "n">>, <<"!", "5", "8", " ", "j", "p">>,
     <<"!", "9", "9">>, <<"!", "9", "9", "c", "n">>, <<"!", "0", "5", "7">>,
     <<"h", "e", "l", "l", "o">>, <<"!", "S", "t", "r", "a", "t", "e", "g", "y">>,
     <<"!", "5", "7", "f", "r">>, <<"!", "s", "t", "r", "a", "t", "e", "g", "y", " ", "5", "7">>}

\* The messages the gateway may deliver in a run.
Inbound ==
    {[author |-> [bot |-> b], content |-> c, channel |-> ch] :
        b \in BOOLEAN, c \in BaseContents, ch \in Channels}

\* Floor digits, separators, suffixes and paddings that message texts are
\* built from when one message is handled.
FloorDigits == {Floor57, Floor58, <<"9", "9">>, <<"0", "5", "7">>}
Separators == {<<>>, <<" ">>}
Suffixes ==
    {<<>>, <<"e", "n">>, <<"E", "N">>, <<"E", "n">>, <<"e", "N">>,
     <<"c", "n">>, <<"C", "N">>, <<"c", "N">>,
     <<"j", "p">>, <<"J", "P">>, <<"J", "p">>,
     <<"f", "r">>, <<"e", "n", "x">>}
LeadPads == {<<>>, <<"\t", " ">>}
TrailPads == {<<>>, <<"\n", "U+3000">>}

FloorTexts ==
    {<<"!">> \o f \o sep \o suf : f \in FloorDigits, sep \in Separators, suf \in Suffixes}

OtherTexts ==
    {<<>>, <<"!">>, <<"!", "e", "n">>, <<"5", "7", "e", "n">>, <<"!", " ", "5", "7">>,
     <<"!", "5", " ", "7">>, <<"!", "5", "7", "!">>, <<"h", "e", "l", "l", "o">>,
     <<"!", "S", "T", "R", "A", "T", "E", "G", "Y">>,
     <<"!", "s", "t", "r", "a", "t", "e", "g", "y", "5", "7">>,
     <<"!", "U+653B">>, <<"!", "U+7565", "U+653B">>}

CoreTexts == {CmdStrategy, CmdCn, CmdJp} \cup FloorTexts \cup OtherTexts

TextContents == {pre \o c \o post : pre \in LeadPads, c \in CoreTexts, post \in TrailPads}

\* The messages from which the one message of a single-message run is drawn.
TextInbound ==
    {[author |-> [bot |-> b], content |-> c, channel |-> ch] :
        b \in BOOLEAN, c \in TextContents, ch \in Channels}

StartDays == {StartDayA, StartDayB}

\* ------------------------------------------------------------- state

VARIABLES
    pc,         \* where the process is: "start", "checked", "created",
                \* "readyRegistered", "registered", "connecting", "ready",
                \* "loginRejected", or "exited"
    TOKEN,      \* process.env.BOT_TOKEN
    exitCode,   \* the status the process exited with, -1 while it runs
    stderr,     \* the lines console.error wrote
    client,     \* whether the Client was constructed
    listeners,  \* the events of the client that have a listener
    loginCalled,\* whether client.login was called
    now,        \* the system clock's date, in days since 1970-01-01
    lastMsg,    \* the message the handler ran on last, <<>> before the first
    reply,      \* what the handler did on lastMsg: its sends, whether it threw
    nHandled,   \* how many times the handler ran
    nSent       \* how many messages were sent to channels

vars == <<pc, TOKEN, exitCode, stderr, client, listeners, loginCalled, now,
          lastMsg, reply, nHandled, nSent>>

startup == <<TOKEN, exitCode, stderr, client, listeners, loginCalled>>
traffic == <<lastMsg, reply, nHandled, nSent>>

MissingTokenDiagnostic == "BOT_TOKEN is not configured in .env"

Init ==
    /\ pc = "start"
    /\ TOKEN \in TokenValues
    /\ exitCode = -1
    /\ stderr = <<>>
    /\ client = FALSE
    /\ listeners = {}
    /\ loginCalled = FALSE
    /\ now \in StartDays
    /\ lastMsg = <<>>
    /\ reply = [sends |-> <<>>, threw |-> FALSE]
    /\ nHandled = 0
    /\ nSent = 0

\* The token check as TOKEN === undefined: an empty token passes.
TokenUndefined(t) == ~t.set

\* !TOKEN: the token is undefined or the empty string.
TokenMissing(t) == ~t.set \/ t.value = ""

\* if (!TOKEN) { console.error(...); process.exit(1); }
CheckToken ==
    /\ pc = "start"
    /\ IF TokenMissing(TOKEN)
       THEN /\ stderr' = Append(stderr, MissingTokenDiagnostic)
            /\ exitCode' = 1
            /\ pc' = "exited"
       ELSE /\ pc' = "checked"
            /\ UNCHANGED <<stderr, exitCode>>
    /\ UNCHANGED <<TOKEN, client, listeners, loginCalled, now, traffic>>

\* const client = new Client({ intents: [...] }).
CreateClient ==
    /\ pc = "checked"
    /\ client' = TRUE
    /\ pc' = "created"
    /\ UNCHANGED <<TOKEN, exitCode, stderr, listeners, loginCalled, now, traffic>>

\* client.once('ready', ...).
RegisterReady ==
    /\ pc = "created"
    /\ listeners' = listeners \cup {"ready"}
    /\ pc' = "readyRegistered"
    /\ UNCHANGED <<TOKEN, exitCode, stderr, client, loginCalled, now, traffic>>

\* client.on('messageCreate', ...).
RegisterMessageCreate ==
    /\ pc = "readyRegistered"
    /\ listeners' = listeners \cup {"messageCreate"}
    /\ pc' = "registered"
    /\ UNCHANGED <<TOKEN, exitCode, stderr, client, loginCalled, now, traffic>>

\* client.login(TOKEN).
Login ==
    /\ pc = "registered"
    /\ loginCalled' = TRUE
    /\ pc' = "connecting"
    /\ UNCHANGED <<TOKEN, exitCode, stderr, client, listeners, now, traffic>>

\* The gateway accepts the login: the ready listener runs, once, and
\* messages are delivered from now on.
Ready ==
    /\ pc = "connecting"
    /\ pc' = "ready"
    /\ listeners' = listeners \ {"ready"}
    /\ UNCHANGED <<TOKEN, exitCode, stderr, client, loginCalled, now, traffic>>

\* The gateway rejects the login: the promise of client.login rejects and
\* no message is ever delivered.
LoginRejected ==
    /\ pc = "connecting"
    /\ pc' = "loginRejected"
    /\ UNCHANGED <<startup, now, traffic>>

\* The client emits messageCreate for msg and the handler runs on it.
Deliver(msg) ==
    /\ pc = "ready"
    /\ "messageCreate" \in listeners
    /\ lastMsg' = <<msg>>
    /\ reply' = MessageCreate(msg, now)
    /\ nHandled' = nHandled + 1
    /\ nSent' = nSent + Len(MessageCreate(msg, now).sends)
    /\ UNCHANGED <<pc, startup, now>>

\* A message of a run is delivered.
DeliverMessage ==
    /\ nHandled < MaxMsgs
    /\ \E msg \in Inbound : Deliver(msg)

\* The one message of a single-message run is delivered.
DeliverText ==
    /\ nHandled = 0
    /\ \E msg \in TextInbound : Deliver(msg)

\* The clock passes midnight, while the process runs.
Tick ==
    /\ pc # "exited"
    /\ \E s \in StartDays : s <= now /\ now < s + MaxTicks
    /\ now' = now + 1
    /\ UNCHANGED <<pc, startup, traffic>>

Start ==
    \/ CheckToken
    \/ CreateClient
    \/ RegisterReady
    \/ RegisterMessageCreate
    \/ Login
    \/ Ready
    \/ LoginRejected

Next == Start \/ DeliverMessage \/ Tick

\* A run of the process with up to MaxMsgs messages.
Spec == Init /\ [][Next]_vars

NextText == Start \/ DeliverText \/ Tick

\* A run of the process with one message, drawn from the padded and
\* mixed-case texts: the handler keeps no state between messages, so what it
\* does on a text is decided by one delivery.
SpecText == Init /\ [][NextText]_vars

\* Floor command texts of known floors, of unknown floors and of floor
\* numbers written with leading zeros or further digits.
FloorContents ==
    {<<"!", "5", "7">>, <<"!", "5", "8">>, <<"!", "5", "7", "e", "n">>,
     <<"!", "5", "8", "c", "n">>, <<"!", "5", "8", " ", "J", "P">>,
     <<"!", "0", "5", "7">>, <<"!", "0", "0", "5", "8", "c", "n">>,
     <<"!", "0", "5", "8">>, <<"!", "5", "7", "0">>, <<"!", "5">>,
     <<"!", "9", "9">>}

\* The messages from which the one message of a floor-command run is drawn.
FloorInbound ==
    {[author |-> [bot |-> b], content |-> c, channel |-> ch] :
        b \in BOOLEAN, c \in FloorContents, ch \in Channels}

\* The days a floor-command run may be started on: weeks that hold the end
\* of a year, of a February and of a leap-year February.
FloorStartDays == {StartDayA, StartDayB, StartDayC, StartDayD}

\* The process starts, in one of the weeks of FloorStartDays.
InitFloor ==
    /\ pc = "start"
    /\ TOKEN \in TokenValues
    /\ exitCode = -1
    /\ stderr = <<>>
    /\ client = FALSE
    /\ listeners = {}
    /\ loginCalled = FALSE
    /\ now \in FloorStartDays
    /\ lastMsg = <<>>
    /\ reply = [sends |-> <<>>, threw |-> FALSE]
    /\ nHandled = 0
    /\ nSent = 0

\* The one message of a floor-command run is delivered.
DeliverFloor ==
    /\ nHandled = 0
    /\ \E msg \in FloorInbound : Deliver(msg)

\* The clock passes midnight in a floor-command run.
TickFloor ==
    /\ pc # "exited"
    /\ \E s \in FloorStartDays : s <= now /\ now < s + MaxTicks
    /\ now' = now + 1
    /\ UNCHANGED <<pc, startup, traffic>>

NextFloor == Start \/ DeliverFloor \/ TickFloor

\* A run of the process with one floor command, on the days of weeks that
\* cross the end of a month or of a year.
SpecFloor == InitFloor /\ [][NextFloor]_vars

\* ------------------------------------------------------------- claims

\* The message the handler ran on last; read only where lastMsg # <<>>.
Msg == lastMsg[1]

\* The handler has run on a message written by a user, not a bot.
UserMsgHandled == lastMsg # <<>> /\ ~Msg.author.bot

\* The reply is one message to the channel of Msg, holding one embed.
OneEmbedSent ==
    /\ ~reply.threw
    /\ Len(reply.sends) = 1
    /\ reply.sends[1].channel = Msg.channel
    /\ Len(reply.sends[1].embeds) = 1

\* The embed of a reply for which OneEmbedSent holds.
SentEmbed == reply.sends[1].embeds[1]

\* Whether x is one of the elements of sequence s.
Contains(s, x) == \E i \in 1..Len(s) : s[i] = x

\* C1: for a message written by a bot, whatever its text, the handler sends
\* nothing: its reply has no send and the number of messages sent stays 0
\* (checked on the single message of SpecText).
C1_BotMessagesGetNoReply ==
    (lastMsg # <<>> /\ Msg.author.bot) =>
        (reply.sends = <<>> /\ ~reply.threw /\ nSent = 0)

\* A bot wrote !57en, with padding, and the handler has run on it.
C1_Witness ==
    /\ lastMsg # <<>>
    /\ Msg.author.bot
    /\ Msg.content = <<"\t", " ", "!", "5", "7", "e", "n">>
    /\ nHandled = 1

\* The texts of BaseContents that are commands with a reply: the literal
\* commands (one of them padded) and the floor commands of floors 57 and 58.
ReplyingBaseContents ==
    {<<"!", "s", "t", "r", "a", "t", "e", "g", "y">>,
     <<" ", "!", "s", "t", "r", "a", "t", "e", "g", "y", "\n">>,
     <<"!", "U+653B", "U+7565">>, <<"!", "U+6226", "U+7565">>,
     <<"!", "5", "7">>, <<"!", "5", "7", "e", "n">>, <<"!", "5", "7", "J", "P">>,
     <<"!", "5", "8", "c", "n">>, <<"!", "5", "8", " ", "j", "p">>}

\* C2: over any sequence of messages, each run of the handler on a command
\* of a user adds exactly one send, to the channel of the message, each
\* other run adds none, and no other step sends anything.
C2_OneSendPerCommand ==
    [][/\ nHandled' = nHandled + 1 =>
            IF ~lastMsg'[1].author.bot /\ lastMsg'[1].content \in ReplyingBaseContents
            THEN /\ nSent' = nSent + 1
                 /\ Len(reply'.sends) = 1
                 /\ reply'.sends[1].channel = lastMsg'[1].channel
            ELSE /\ nSent' = nSent
                 /\ reply'.sends = <<>>
       /\ nHandled' # nHandled + 1 => (nSent' = nSent /\ nHandled' = nHandled)
      ]_vars

\* Two commands of a user were handled, the same text twice, and each was
\* answered once.
C2_Witness ==
    /\ nHandled = 2
    /\ nSent = 2
    /\ UserMsgHandled
    /\ Msg.content = <<"!", "5", "8", "c", "n">>

\* C3: a user's message whose trimmed text is one of the three literal
\* commands gets exactly one embed with the fixed title of the command and
\* the color 0x1ABC9C, on every date and after any earlier message.
C3_LiteralCommandsFixedEmbed ==
    /\ (UserMsgHandled
         /\ Msg.content \in {<<"!", "s", "t", "r", "a", "t", "e", "g", "y">>,
                             <<" ", "!", "s", "t", "r", "a", "t", "e", "g", "y", "\n">>})
        => (OneEmbedSent /\ SentEmbed.title = <<"Common abyss strategy">>
                         /\ SentEmbed.color = 1752220)
    /\ (UserMsgHandled /\ Msg.content = <<"!", "U+653B", "U+7565">>)
        => (OneEmbedSent
            /\ SentEmbed.title = <<"<U+901A><U+7528><U+6DF1><U+6DF5><U+653B><U+7565>">>
            /\ SentEmbed.color = 1752220)
    /\ (UserMsgHandled /\ Msg.content = <<"!", "U+6226", "U+7565">>)
        => (OneEmbedSent
            /\ SentEmbed.title = <<"<U+5171><U+901A><U+6DF1><U+6DF5><U+6226><U+7565>">>
            /\ SentEmbed.color = 1752220)

\* The Chinese literal command was handled as the second message of a run
\* and the clock is at a Saturday.
C3_Witness ==
    /\ UserMsgHandled
    /\ Msg.content = <<"!", "U+653B", "U+7565">>
    /\ nHandled = 2
    /\ (now + 4) % 7 = 6

\* C4: for every floor and language of the strategies table, a user's
\* message !<floor><lang> gets one embed whose title ends with the entry's
\* titleSuffix and whose description holds the entry's goal number and the
\* entry's permalink; for !57en these are "Abyss Strategy for 57", 57 and
\* the 57/en link.
C4_FloorReplyCarriesEntry ==
    /\ \A f \in DOMAIN strategies : \A l \in DOMAIN strategies[f] :
         (UserMsgHandled /\ Msg.content = <<"!">> \o f \o l)
           => /\ OneEmbedSent
              /\ SentEmbed.title[Len(SentEmbed.title)] = strategies[f][l].titleSuffix
              /\ Contains(SentEmbed.description, ToString(strategies[f][l].goal))
              /\ Contains(SentEmbed.description, strategies[f][l].link)
    /\ (UserMsgHandled /\ Msg.content = <<"!", "5", "7", "e", "n">>)
           => /\ OneEmbedSent
              /\ SentEmbed.title[Len(SentEmbed.title)] = "Abyss Strategy for 57"
              /\ Contains(SentEmbed.description, "57")
              /\ Contains(SentEmbed.description,
                   "https://discord.com/channels/1082595320074092574/1363695806841880656/1381677003136176293")

\* A user's !58jp was handled and answered.
C4_Witness ==
    /\ UserMsgHandled
    /\ Msg.content = <<"!", "5", "8", "j", "p">>
    /\ nSent = 1

\* Floor numbers that are no key of the strategies table.
UnknownFloors == {<<"9", "9">>, <<"0", "5", "7">>}

\* The language suffixes of a floor command, in the spellings drawn here,
\* and none.
LangSpellings ==
    {<<>>, <<"e", "n">>, <<"E", "N">>, <<"E", "n">>, <<"e", "N">>,
     <<"c", "n">>, <<"C", "N">>, <<"c", "N">>, <<"j", "p">>, <<"J", "P">>, <<"J", "p">>}

\* C5: a user's floor command of a floor that is no key of the table, with
\* or without a language suffix, gets no reply, and the handler returns
\* without throwing.
C5_UnknownFloorIgnored ==
    \A f \in UnknownFloors : \A sep \in {<<>>, <<" ">>} : \A suf \in LangSpellings :
        (UserMsgHandled /\ Msg.content = <<"!">> \o f \o sep \o suf)
            => (reply.sends = <<>> /\ ~reply.threw /\ nSent = 0)

\* A user's !99 was handled.
C5_Witness ==
    /\ UserMsgHandled
    /\ Msg.content = <<"!", "9", "9">>
    /\ nHandled = 1
    /\ pc = "ready"

\* The known floors, as digits and as goal numbers.
KnownFloors == {<<<<"5", "7">>, "57">>, <<<<"5", "8">>, "58">>}

\* The link of a floor reply's description: its fourth part, between the
\* opening and the closing parenthesis of the template.
LinkOf(description) == description[4]

\* C6: the color and the description template of a floor reply follow from
\* the language alone: on both floors cn gets 0xFF4500 and the cn template
\* around goal and link, jp gets 0xFFD700 and the jp template, en gets
\* 0x1ABC9C and the en template; the reply to !58cn has the cn color and the
\* cn template, not the en one.
C6_ColorAndTemplateByLanguage ==
    \A fl \in KnownFloors :
      /\ (UserMsgHandled /\ Msg.content = <<"!">> \o fl[1] \o <<"c", "n">>)
           => /\ OneEmbedSent
              /\ SentEmbed.color = 16729344
              /\ Len(SentEmbed.description) = 5
              /\ SentEmbed.description =
                   <<"**<U+76EE><U+6A19><U+FF1A>**", fl[2],
                     "<U+5C64>\n\n**<U+653B><U+7565><U+FF1A>**[<U+9EDE><U+9019><U+88E1>](",
                     LinkOf(SentEmbed.description), ")">>
              /\ SentEmbed.description[1] # "**Goal:** "
      /\ (UserMsgHandled /\ Msg.content = <<"!">> \o fl[1] \o <<"j", "p">>)
           => /\ OneEmbedSent
              /\ SentEmbed.color = 16766720
              /\ Len(SentEmbed.description) = 5
              /\ SentEmbed.description =
                   <<"**<U+76EE><U+6A19><U+FF1A>**", fl[2],
                     "<U+5C64>\n\n**<U+6226><U+7565><U+FF1A>**[<U+3053><U+3061><U+3089>](",
                     LinkOf(SentEmbed.description), ")">>
      /\ (UserMsgHandled /\ Msg.content = <<"!">> \o fl[1] \o <<"e", "n">>)
           => /\ OneEmbedSent
              /\ SentEmbed.color = 1752220
              /\ Len(SentEmbed.description) = 5
              /\ SentEmbed.description =
                   <<"**Goal:** ", fl[2], "\n\n**Guide:** [Click here](",
                     LinkOf(SentEmbed.description), ")">>

\* A user's !58cn was handled and answered.
C6_Witness ==
    /\ UserMsgHandled
    /\ Msg.content = <<"!", "5", "8", "c", "n">>
    /\ nSent = 1
    /\ reply.sends # <<>>

\* The command texts: the literal commands and the floor commands of the
\* known floors, with each spelling of a language suffix and with none.
CommandTexts ==
    {<<"!", "s", "t", "r", "a", "t", "e", "g", "y">>,
     <<"!", "U+653B", "U+7565">>, <<"!", "U+6226", "U+7565">>}
    \cup {<<"!">> \o fl[1] \o suf : fl \in KnownFloors, suf \in LangSpellings}

\* s with the first a and the last b characters taken off.
Inner(s, a, b) == SubSeq(s, a + 1, Len(s) - b)

\* The step is a run of the handler (on the message lastMsg'[1], with the
\* clock at now).
HandlerRuns == nHandled' = nHandled + 1

\* C7: white space before and after a command text changes nothing: when
\* the handler runs on a padded command, its reply is the reply it gives on
\* that date to the command text itself, and it is a reply.
C7_PaddingIgnored ==
    [][HandlerRuns =>
        \A pre \in {<<>>, <<"\t", " ">>} : \A post \in {<<>>, <<"\n", "U+3000">>} :
          (/\ UserMsgHandled'
           /\ Len(Msg'.content) >= Len(pre) + Len(post)
           /\ SubSeq(Msg'.content, 1, Len(pre)) = pre
           /\ Inner(Msg'.content, Len(Msg'.content) - Len(post), 0) = post
           /\ Inner(Msg'.content, Len(pre), Len(post)) \in CommandTexts)
          => /\ reply' = MessageCreate(
                    [Msg' EXCEPT !.content = Inner(Msg'.content, Len(pre), Len(post))], now)
             /\ OneEmbedSent'
      ]_vars

\* A user's !strategy with white space on both sides was handled.
C7_Witness ==
    /\ UserMsgHandled
    /\ Msg.content = <<"\t", " ", "!", "s", "t", "r", "a", "t", "e", "g", "y", "\n", "U+3000">>
    /\ nHandled = 1

\* Spellings of a language suffix that are not all lower case, each with
\* its lower-case spelling.
MixedCase ==
    {<<<<"E", "N">>, <<"e", "n">>>>, <<<<"E", "n">>, <<"e", "n">>>>,
     <<<<"e", "N">>, <<"e", "n">>>>, <<<<"C", "N">>, <<"c", "n">>>>,
     <<<<"c", "N">>, <<"c", "n">>>>, <<<<"J", "P">>, <<"j", "p">>>>,
     <<<<"J", "p">>, <<"j", "p">>>>}

\* The floor numbers drawn, known and unknown.
AllFloors == {<<"5", "7">>, <<"5", "8">>, <<"9", "9">>, <<"0", "5", "7">>}

\* C8: the language suffix of a floor command is read without regard to
\* case, and a floor command without a suffix is read as English: when the
\* handler runs on !N<SUFFIX> its reply is the reply it gives on that date
\* to !N<suffix>, and on !N the reply it gives to !Nen, for every floor N.
C8_SuffixCaseAndDefault ==
    [][HandlerRuns =>
        \A f \in AllFloors :
          /\ \A sp \in MixedCase :
               (UserMsgHandled' /\ Msg'.content = <<"!">> \o f \o sp[1])
                 => reply' = MessageCreate(
                                [Msg' EXCEPT !.content = <<"!">> \o f \o sp[2]], now)
          /\ (UserMsgHandled' /\ Msg'.content = <<"!">> \o f)
                 => reply' = MessageCreate(
                                [Msg' EXCEPT !.content = <<"!">> \o f \o <<"e", "n">>], now)
      ]_vars

\* A user's !57EN was handled and answered.
C8_Witness ==
    /\ UserMsgHandled
    /\ Msg.content = <<"!", "5", "7", "E", "N">>
    /\ Len(reply.sends) = 1

\* The first Friday on or after day t.
UpcomingFriday(t) == CHOOSE d \in t..(t + 6) : (d + 4) % 7 = 5

\* A user's floor command of a known floor was handled.
FloorReplySent ==
    /\ UserMsgHandled
    /\ Msg.content \in {<<"!", "5", "7">>, <<"!", "5", "7", "e", "n">>,
                        <<"!", "5", "7", "J", "P">>, <<"!", "5", "8", "c", "n">>,
                        <<"!", "5", "8", " ", "j", "p">>}

\* C9: on every date, when the handler runs on a floor command of a known
\* floor, the date of the reply's title is the upcoming Friday, the first
\* Friday on or after the current date, so it is never before the current
\* date.
C9_UpcomingFriday ==
    [][(HandlerRuns /\ FloorReplySent') =>
        /\ OneEmbedSent'
        /\ SentEmbed'.title[1] = ToString(GetMonth(UpcomingFriday(now)) + 1)
        /\ SentEmbed'.title[2] = "/"
        /\ SentEmbed'.title[3] = ToString(GetDate(UpcomingFriday(now)))
      ]_vars

\* C10: with BOT_TOKEN absent or empty the process leaves the start only by
\* exiting with a non-zero status after writing a diagnostic; no client is
\* created, no listener is registered, login is not called, and no message
\* is handled or sent.
C10_MissingTokenExits ==
    (~TOKEN.set \/ TOKEN.value = "") =>
        /\ pc \in {"start", "exited"}
        /\ pc = "exited" => (exitCode # 0 /\ exitCode # -1 /\ Len(stderr) = 1)
        /\ pc = "start" => (exitCode = -1 /\ stderr = <<>>)
        /\ ~client
        /\ listeners = {}
        /\ ~loginCalled
        /\ nHandled = 0
        /\ nSent = 0
        /\ lastMsg = <<>>

\* The process exited on an empty BOT_TOKEN.
C10_Witness ==
    /\ pc = "exited"
    /\ TOKEN.set
    /\ TOKEN.value = ""
    /\ exitCode = 1

\* A user's floor command of a known floor, among FloorContents, was handled.
KnownFloorHandled ==
    /\ UserMsgHandled
    /\ Msg.content \in {<<"!", "5", "7">>, <<"!", "5", "8">>, <<"!", "5", "7", "e", "n">>,
                        <<"!", "5", "8", "c", "n">>, <<"!", "5", "8", " ", "J", "P">>}

\* The decimal numerals of the months and of the days of a month, without
\* zero padding.
MonthNumerals == {"1", "2", "3", "4", "5", "6", "7", "8", "9", "10", "11", "12"}
DayNumerals ==
    MonthNumerals \cup {"13", "14", "15", "16", "17", "18", "19", "20", "21", "22",
                        "23", "24", "25", "26", "27", "28", "29", "30", "31"}

\* The title's date on some days, from the calendar: the day the handler
\* runs on, the month and the day of the title.
CalendarFridays ==
    {<<18987, "12", "31">>,   \* Sunday 2021-12-26: Friday 2021-12-31
     <<18993, "12", "31">>,   \* Saturday 2022-01-01: the day before, in the last year
     <<19778, "3", "1">>,     \* Sunday 2024-02-25: Friday 2024-03-01, past the leap day
     <<19782, "3", "1">>,     \* Thursday 2024-02-29
     <<19784, "3", "1">>,     \* Saturday 2024-03-02
     <<20086, "1", "3">>,     \* Sunday 2024-12-29: Friday 2025-01-03, in the next year
     <<20092, "1", "3">>,     \* Saturday 2025-01-04
     <<20142, "2", "28">>,    \* Sunday 2025-02-23: Friday 2025-02-28
     <<20148, "2", "28">>}    \* Saturday 2025-03-01: the day before, in the last month

\* C11: when the handler runs on a floor command of a known floor, the
\* title starts with <month>/<day>, unpadded, of the date 5 - w days from
\* the current date, w being the current weekday with Sunday 0; that date is
\* a Friday also where it lies in the next or the last month or year.
C11_TitleDateIsFiveMinusWeekday ==
    [][(HandlerRuns /\ KnownFloorHandled') =>
        LET w    == (now + 4) % 7
            date == now + (5 - w)
        IN  /\ OneEmbedSent'
            /\ Len(SentEmbed'.title) = 5
            /\ SentEmbed'.title[1] = ToString(GetMonth(date) + 1)
            /\ SentEmbed'.title[1] \in MonthNumerals
            /\ SentEmbed'.title[2] = "/"
            /\ SentEmbed'.title[3] = ToString(GetDate(date))
            /\ SentEmbed'.title[3] \in DayNumerals
            /\ SentEmbed'.title[4] = " "
            /\ (date + 4) % 7 = 5
            /\ \A c \in CalendarFridays :
                 now = c[1] => (SentEmbed'.title[1] = c[2] /\ SentEmbed'.title[3] = c[3])
      ]_vars

\* A user's floor command was handled, the clock is at Saturday 2025-03-01
\* and the title is dated 2/28, the Friday of the month before.
C11_Witness ==
    /\ KnownFloorHandled
    /\ now = 20148
    /\ Len(reply.sends) = 1
    /\ SentEmbed.title[1] = "2"
    /\ SentEmbed.title[3] = "28"

\* C12: the floor is looked up by the digits as written, not by the number
\* they spell: a user's !057, !058 or !0058cn, whose number is a known floor
\* but whose digits are no key of the table, gets no reply, and !57 and !58
\* get the English reply of their floor.
C12_LookupByDigitString ==
    /\ (UserMsgHandled
         /\ Msg.content \in {<<"!", "0", "5", "7">>, <<"!", "0", "5", "8">>,
                             <<"!", "0", "0", "5", "8", "c", "n">>})
        => (reply.sends = <<>> /\ ~reply.threw /\ nSent = 0)
    /\ (UserMsgHandled /\ Msg.content = <<"!", "5", "7">>)
        => (OneEmbedSent /\ nSent = 1
            /\ SentEmbed.title[Len(SentEmbed.title)] = "Abyss Strategy for 57")
    /\ (UserMsgHandled /\ Msg.content = <<"!", "5", "8">>)
        => (OneEmbedSent /\ nSent = 1
            /\ SentEmbed.title[Len(SentEmbed.title)] = "Abyss Strategy for 58")

\* A user's !0058cn was handled and nothing was sent.
C12_Witness ==
    /\ UserMsgHandled
    /\ Msg.content = <<"!", "0", "0", "5", "8", "c", "n">>
    /\ nHandled = 1
    /\ reply.sends = <<>>

====
